---- MODULE Spec2Model ----
(***************************************************************************)
(* buildkit command line (buildkit/cli.py) and the pruning-list patcher    *)
(* (devutils/update_lists_patch.py) of ungoogled-chromium.                 *)
(*                                                                         *)
(* Spec      : one run of cli.main(): argparse parsing of the sub-command  *)
(*             line, the dispatch to args.callback, the three callbacks    *)
(*             (bunnfo, genbun, getsrc) and the retrieval pipeline behind  *)
(*             getsrc.                                                     *)
(* SpecPatch : runs of add_patterns_to_file() over a bounded family of     *)
(*             update_lists.py contents.                                   *)
(***************************************************************************)
EXTENDS Integers, Sequences, FiniteSets, TLC

VARIABLES
    command,      \* the sub-command named on the command line
    arg_list,     \* the arguments after the sub-command: <<option, value>> pairs
    argv,         \* the arguments parse_args has not consumed yet
    ns,           \* the argparse namespace: attribute -> value
    seen,         \* argparse's seen (non-default) actions
    extras,       \* argparse met an argument no action takes
    pc,           \* where main() is
    exit_status,  \* status passed to parser.exit()/parser.error(), -1 while running
    escaped,      \* class of the exception that left main(), "" if none
    callback_run, \* the callback that main() invoked, "" if none
    stdout,       \* lines printed
    meta,         \* resources/config_bundles: bundle name -> its base (or Root/Absent)
    fs,           \* user bundle paths and the buildspace tree: path -> what is there
    fs0,          \* fs as it was when main() started
    task,         \* retrieval target -> state of its download-and-verify task
    extracted,    \* retrieval targets extracted so far, in order
    raised,       \* class of the exception raised by the operation the command
                  \* asked for (from_base_name, write, retrieve_and_extract), "" if none
    linesep,      \* SpecPatch: os.linesep of the platform
    file,         \* SpecPatch: characters of update_lists.py on disk
    file0,        \* SpecPatch: the file before the first run
    file1,        \* SpecPatch: the file after the first run
    runs,         \* SpecPatch: completed runs of add_patterns_to_file
    last          \* SpecPatch: what the last run read, decided and wrote

cliVars == <<command, arg_list, argv, ns, seen, extras, pc, exit_status, escaped,
             callback_run, stdout, meta, fs, fs0, task, extracted, raised>>
patchVars == <<linesep, file, file0, file1, runs, last>>
vars == <<cliVars, patchVars>>

(***************************************************************************)
(* Bounds of the model.                                                    *)
(***************************************************************************)
NumBundles == 2
MaxArgs == 2
NumTargets == 2
MaxFrags == 3
MaxRuns == 2

(***************************************************************************)
(* Python exception classes and the matching of except clauses.            *)
(***************************************************************************)
Parent(cls) ==
    CASE cls \in {"FileExistsError", "FileNotFoundError", "NotADirectoryError",
                  "PermissionError", "URLError"} -> "OSError"
      [] cls \in {"_CLIError", "NotImplementedError"} -> "RuntimeError"
      [] cls \in {"OSError", "ValueError", "RuntimeError", "AttributeError",
                  "NotAFileError", "HashMismatchError",
                  "UnsafeArchiveEntryError"} -> "Exception"
      [] cls = "Exception" -> "BaseException"
      [] OTHER -> ""

RECURSIVE IsInstance(_, _)
IsInstance(exc, cls) ==
    IF exc = "" THEN FALSE
    ELSE IF exc = cls THEN TRUE
    ELSE IsInstance(Parent(exc), cls)

\* Index of the first except clause that catches exc, 0 if none does.
RECURSIVE FirstMatch(_, _, _)
FirstMatch(clauses, exc, i) ==
    IF i > Len(clauses) THEN 0
    ELSE IF IsInstance(exc, clauses[i]) THEN i
    ELSE FirstMatch(clauses, exc, i + 1)

Caught(clauses, exc) == FirstMatch(clauses, exc, 1) # 0

(***************************************************************************)
(* The commands and their argparse actions.                                *)
(***************************************************************************)
Commands == {"bunnfo", "genbun", "getsrc", "prubin", "subdom", "genpkg"}

\* The parsers on which setup_bundle_group is called.
BundleGroupCommands == {"getsrc", "prubin", "subdom", "genpkg"}

\* The parsers on which set_defaults(callback=...) is called.
CallbackOf(cmd) ==
    CASE cmd = "bunnfo" -> "bunnfo"
      [] cmd = "genbun" -> "genbun"
      [] cmd = "getsrc" -> "getsrc"
      [] OTHER -> ""

NameOf == <<"a", "b", "c", "d">>
Names == {NameOf[i] : i \in 1..NumBundles}
Root == "<root>"
Absent == "<absent>"

DefaultUserBundle == "buildspace/user_bundle"
OtherUserBundle == "other/user_bundle"
DefaultTree == "buildspace/tree"
DefaultDownloads == "buildspace/downloads"
BundlePaths == {DefaultUserBundle, OtherUserBundle}

Attrs == {"command", "bundle", "base_bundle", "user_bundle_path", "list",
          "tree", "downloads", "prune_binaries", "show_progress", "only",
          "output_path", "callback"}

NoAttr == <<"absent", "">>
None == <<"none", "">>
Str(s) == <<"str", s>>
PathOf(s) == <<"path", s>>
Bool(b) == <<"bool", IF b THEN "True" ELSE "False">>
BaseBundle(n) == <<"base", n>>
UserBundle(p) == <<"user", p>>
Callback(c) == <<"callback", c>>

\* The action of parser cmd that takes option opt: "" when it has none.
ActionFor(cmd, opt) ==
    CASE cmd = "bunnfo" /\ opt = "-l" -> "list"
      [] cmd = "bunnfo" /\ opt = "-d" -> "dependencies"
      [] cmd = "genbun" /\ opt = "-u" -> "user_bundle_path"
      [] cmd = "genbun" /\ opt = "pos" -> "base_bundle"
      [] cmd \in BundleGroupCommands /\ opt = "-b" -> "base_bundle_name"
      [] cmd \in BundleGroupCommands /\ opt = "-u" -> "user_bundle"
      [] OTHER -> ""

Dest(act) ==
    CASE act = "list" -> "list"
      [] act = "user_bundle_path" -> "user_bundle_path"
      [] act = "base_bundle" -> "base_bundle"
      [] OTHER -> "bundle"

\* The actions built with action=_NewBaseBundleAction.
NewBaseBundleActions == {"dependencies", "base_bundle", "base_bundle_name"}

\* Mutant: setup_bundle_group adds -b and -u to no exclusive group.
ConflictsBunnfoOnly(act) ==
    CASE act = "list" -> {"dependencies"}
      [] act = "dependencies" -> {"list"}
      [] OTHER -> {}

\* add_mutually_exclusive_group: the actions an action conflicts with.
Conflicts(act) ==
    CASE act = "list" -> {"dependencies"}
      [] act = "dependencies" -> {"list"}
      [] act = "base_bundle_name" -> {"user_bundle"}
      [] act = "user_bundle" -> {"base_bundle_name"}
      [] OTHER -> {}

\* The arguments tried on parser cmd; -u is tried with the path that is not
\* its default.
ArgsOf(cmd) ==
    CASE cmd = "bunnfo" -> {<<"-l", "">>} \cup {<<"-d", n>> : n \in Names}
      [] cmd = "genbun" -> {<<"-u", OtherUserBundle>>} \cup {<<"pos", n>> : n \in Names}
      [] OTHER -> {<<"-u", OtherUserBundle>>} \cup {<<"-b", n>> : n \in Names}

\* Namespace defaults argparse sets before it reads the first argument:
\* each action's default unless argparse.SUPPRESS, then the parser's set_defaults.
Defaults(cmd) ==
    [a \in Attrs |->
        CASE a = "command" -> Str(cmd)
          [] a = "callback" /\ CallbackOf(cmd) # "" -> Callback(CallbackOf(cmd))
          [] a = "list" /\ cmd = "bunnfo" -> Bool(FALSE)
          [] a = "bundle" /\ cmd = "bunnfo" -> None
          [] a = "bundle" /\ cmd \in BundleGroupCommands -> Str(DefaultUserBundle)
          [] a = "user_bundle_path" /\ cmd = "genbun" -> Str(DefaultUserBundle)
          [] a = "base_bundle" /\ cmd = "genbun" -> None
          [] a = "tree" /\ cmd = "getsrc" -> Str(DefaultTree)
          [] a = "downloads" /\ cmd = "getsrc" -> Str(DefaultDownloads)
          [] a = "prune_binaries" /\ cmd = "getsrc" -> Bool(TRUE)
          [] a = "show_progress" /\ cmd = "getsrc" -> Bool(TRUE)
          [] a = "only" /\ cmd = "subdom" -> None
          [] a = "output_path" /\ cmd = "genpkg" ->
                Str("buildspace/tree/ungoogled_packaging")
          [] OTHER -> NoAttr]

(***************************************************************************)
(* config.ConfigBundle: resolution of a base bundle's chain and the load   *)
(* of a user bundle.                                                       *)
(***************************************************************************)
Ok(v) == [exc |-> "", value |-> v]
Raise(cls) == [exc |-> cls, value |-> None]

\* Walks the base chain of name with the set of names on the current path:
\* the dependency order (root first, name last), or the error of the walk.
RECURSIVE ResolveChain(_, _, _)
ResolveChain(m, name, visited) ==
    IF m[name] = Absent THEN [exc |-> "FileNotFoundError", order |-> <<>>]
    ELSE IF name \in visited THEN [exc |-> "ValueError", order |-> <<>>]
    ELSE IF m[name] = Root THEN [exc |-> "", order |-> <<name>>]
    ELSE LET r == ResolveChain(m, m[name], visited \cup {name})
         IN  IF r.exc # "" THEN r
             ELSE [exc |-> "", order |-> Append(r.order, name)]

\* What can go wrong whatever the bundle: resources/ or resources/patches is
\* missing (NotADirectoryError), or the files cannot be read (PermissionError).
ResourceFaults == {"", "NotADirectoryError", "PermissionError"}

from_base_name(m, name, fault) ==
    IF fault # "" THEN Raise(fault)
    ELSE LET r == ResolveChain(m, name, {})
         IN  IF r.exc # "" THEN Raise(r.exc) ELSE Ok(BaseBundle(name))

get_dependencies(m, bundle) ==
    IF bundle[1] = "base" THEN ResolveChain(m, bundle[2], {}).order ELSE <<>>

\* ConfigBundle(Path(x)): the user bundle at x, which must be a directory.
ConfigBundleInit(fsv, p) ==
    IF fsv[p] = "absent" THEN Raise("NotADirectoryError") ELSE Ok(UserBundle(p))

(***************************************************************************)
(* argparse, as cli.py configures it.                                      *)
(***************************************************************************)
\* Mutant: _NewBaseBundleAction.__call__ without the ValueError clause and
\* the last one.
NewBaseBundleClausesOSErrorsOnly == <<"NotADirectoryError", "FileNotFoundError">>

\* The except clauses of _NewBaseBundleAction.__call__, each of which ends in
\* parser.exit(status=1).
NewBaseBundleClauses ==
    <<"NotADirectoryError", "FileNotFoundError", "ValueError", "Exception">>

\* What argparse catches around a type= conversion and turns into parser.error.
ArgparseTypeErrors == <<"ArgumentTypeError", "TypeError", "ValueError">>

Going(nsv, seenv, ex) ==
    [pc |-> "parsing", status |-> -1, exc |-> "", ns |-> nsv, seen |-> seenv,
     extras |-> ex, raised |-> ""]
Exiting(status, nsv, seenv, ex) ==
    [pc |-> "exited", status |-> status, exc |-> "", ns |-> nsv, seen |-> seenv,
     extras |-> ex, raised |-> ""]
Crashing(cls, nsv, seenv, ex) ==
    [pc |-> "crashed", status |-> -1, exc |-> cls, ns |-> nsv, seen |-> seenv,
     extras |-> ex, raised |-> ""]

\* _NewBaseBundleAction.__call__(parser, namespace, values): the bundle is
\* resolved and stored under dest; every exception ends in parser.exit(1).
NewBaseBundleCall(nsv, seenv, ex, m, act, name, fault) ==
    LET r == from_base_name(m, name, fault)
    IN  IF r.exc = ""
        THEN Going([nsv EXCEPT ![Dest(act)] = r.value], seenv \cup {act}, ex)
        ELSE IF Caught(NewBaseBundleClauses, r.exc)
        THEN [Exiting(1, nsv, seenv \cup {act}, ex) EXCEPT !.raised = r.exc]
        ELSE [Crashing(r.exc, nsv, seenv \cup {act}, ex) EXCEPT !.raised = r.exc]

\* One argument taken by the parser of cmd: the value is converted by the
\* action's type=, the mutually exclusive group is checked, the action runs.
TakeAction(cmd, nsv, seenv, ex, m, fsv, arg, fault) ==
    LET opt == arg[1]
        val == arg[2]
        act == ActionFor(cmd, opt)
        conv == IF act = "user_bundle" THEN ConfigBundleInit(fsv, val)
                ELSE IF act = "user_bundle_path" THEN Ok(PathOf(val))
                ELSE IF act = "list" THEN Ok(Bool(TRUE))
                ELSE Ok(Str(val))
    IN  IF act = "" \/ (act = "base_bundle" /\ act \in seenv)
        THEN Going(nsv, seenv, TRUE)
        ELSE IF conv.exc # ""
        THEN IF Caught(ArgparseTypeErrors, conv.exc)
             THEN Exiting(2, nsv, seenv, ex)
             ELSE Crashing(conv.exc, nsv, seenv, ex)
        ELSE IF Conflicts(act) \cap seenv # {}
        THEN Exiting(2, nsv, seenv, ex)
        ELSE IF act \in NewBaseBundleActions
        THEN NewBaseBundleCall(nsv, seenv, ex, m, act, val, fault)
        ELSE Going([nsv EXCEPT ![Dest(act)] = conv.value], seenv \cup {act}, ex)

\* A string default that no argument replaced is converted by the action's type=.
ConvertDefault(v) == IF v[1] = "str" THEN PathOf(v[2]) ELSE v

\* The end of parse_args: defaults are converted, required arguments and
\* groups are checked, unrecognised arguments are an error.
FinishParse(cmd, nsv, seenv, ex, fsv) ==
    LET conv == IF cmd \in BundleGroupCommands /\ nsv["bundle"][1] = "str"
                THEN ConfigBundleInit(fsv, nsv["bundle"][2])
                ELSE Ok(nsv["bundle"])
        converted ==
            [a \in Attrs |->
                IF a = "bundle" THEN conv.value
                ELSE IF a \in {"user_bundle_path", "tree", "downloads", "output_path"}
                THEN ConvertDefault(nsv[a])
                ELSE nsv[a]]
    IN  IF conv.exc # ""
        THEN IF Caught(ArgparseTypeErrors, conv.exc)
             THEN Exiting(2, nsv, seenv, ex)
             ELSE Crashing(conv.exc, nsv, seenv, ex)
        ELSE IF cmd = "genbun" /\ "base_bundle" \notin seenv
        THEN Exiting(2, converted, seenv, ex)
        ELSE IF cmd = "bunnfo" /\ seenv \cap {"list", "dependencies"} = {}
        THEN Exiting(2, converted, seenv, ex)
        ELSE IF ex
        THEN Exiting(2, converted, seenv, ex)
        ELSE [Going(converted, seenv, ex) EXCEPT !.pc = "parsed"]

(***************************************************************************)
(* main(): the callbacks' except clauses and what leaves main().           *)
(***************************************************************************)
\* Mutant: genbun's _callback without its first clause and its last.
GenbunClausesValueErrorOnly == <<"ValueError">>

\* genbun's _callback: each clause logs and raises _CLIError.
GenbunClauses == <<"FileExistsError", "ValueError", "Exception">>

\* Mutant: getsrc's _callback without its last clause.
GetsrcClausesNoCatchAll ==
    <<"FileExistsError", "FileNotFoundError", "NotADirectoryError",
      "NotAFileError", "HashMismatchError">>

\* getsrc's _callback: each clause logs and raises _CLIError.
GetsrcClauses ==
    <<"FileExistsError", "FileNotFoundError", "NotADirectoryError",
      "NotAFileError", "HashMismatchError", "Exception">>

\* bunnfo's _callback has no try statement.
BunnfoClauses == <<>>

\* main(): except _CLIError: parser.exit(status=1).
MainClauses == <<"_CLIError">>

\* The exception that leaves a callback whose body raised exc ("" if none).
LeavesCallback(clauses, exc) ==
    IF exc = "" THEN ""
    ELSE IF Caught(clauses, exc) THEN "_CLIError"
    ELSE exc

\* How main() ends when the callback's body raised exc ("" if it returned).
MainEnds(clauses, exc) ==
    LET out == LeavesCallback(clauses, exc)
    IN  IF out = "" THEN [pc |-> "returned", status |-> -1, exc |-> ""]
        ELSE IF Caught(MainClauses, out)
        THEN [pc |-> "exited", status |-> 1, exc |-> ""]
        ELSE [pc |-> "crashed", status |-> -1, exc |-> out]

End(e) == /\ pc' = e.pc
          /\ exit_status' = e.status
          /\ escaped' = e.exc

(***************************************************************************)
(* parse_args.                                                             *)
(***************************************************************************)
ConsumeArg ==
    /\ pc = "parsing"
    /\ argv # <<>>
    /\ \E fault \in ResourceFaults :
          LET r == TakeAction(command, ns, seen, extras, meta, fs, Head(argv), fault)
          IN  /\ End(r)
              /\ ns' = r.ns
              /\ seen' = r.seen
              /\ extras' = r.extras
              /\ raised' = r.raised
    /\ argv' = Tail(argv)
    /\ UNCHANGED <<command, arg_list, callback_run, stdout, meta, fs, fs0, task,
                   extracted, patchVars>>

EndParse ==
    /\ pc = "parsing"
    /\ argv = <<>>
    /\ LET r == FinishParse(command, ns, seen, extras, fs)
       IN  /\ End(r)
           /\ ns' = r.ns
    /\ UNCHANGED <<command, arg_list, argv, seen, extras, callback_run, stdout, meta, fs,
                   fs0, task, extracted, raised, patchVars>>

(***************************************************************************)
(* main(): args.callback(args=args).                                       *)
(***************************************************************************)
\* The namespace has no callback attribute: the lookup raises AttributeError
\* inside main()'s try statement.
MainNoCallback ==
    /\ pc = "parsed"
    /\ ns["callback"] = NoAttr
    /\ End(MainEnds(<<>>, "AttributeError"))
    /\ UNCHANGED <<command, arg_list, argv, ns, seen, extras, callback_run, stdout, meta,
                   fs, fs0, task, extracted, raised, patchVars>>

\* The names of the directories under resources/config_bundles, sorted.
BundleDirs(m) == SelectSeq(SubSeq(NameOf, 1, NumBundles), LAMBDA n : m[n] # Absent)

\* Mutant: the requested bundle itself is not printed.
DependencyLinesBasesOnly(m, bundle) ==
    LET deps == get_dependencies(m, bundle)
    IN  SubSeq(deps, 1, Len(deps) - 1)

\* One line per dependency, in the order get_dependencies yields them.
DependencyLines(m, bundle) == get_dependencies(m, bundle)

\* bunnfo's _callback: what it prints, or the exception it raises.
BunnfoBody(nsv, m, fault) ==
    IF nsv["list"] = Bool(TRUE)
    THEN IF fault # "" THEN [exc |-> fault, out |-> <<>>]
         ELSE [exc |-> "", out |-> BundleDirs(m)]
    ELSE IF nsv["bundle"][1] \in {"base", "user"}
    THEN [exc |-> "", out |-> DependencyLines(m, nsv["bundle"])]
    ELSE [exc |-> "NotImplementedError", out |-> <<>>]

BunnfoCallback ==
    /\ pc = "parsed"
    /\ ns["callback"] = Callback("bunnfo")
    /\ callback_run' = "bunnfo"
    /\ \E fault \in ResourceFaults :
          LET r == BunnfoBody(ns, meta, fault)
          IN  /\ stdout' = stdout \o r.out
              /\ End(MainEnds(BunnfoClauses, r.exc))
    /\ UNCHANGED <<command, arg_list, argv, ns, seen, extras, meta, fs, fs0, task,
                   extracted, raised, patchVars>>

\* What can stop ConfigBundle.write besides an existing target.
WriteFaults == {"", "ValueError", "PermissionError"}

\* ConfigBundle.write(path): the merged bundle is written at path, which must
\* not exist.
BundleWrite(fsv, p, fault) ==
    IF fsv[p] # "absent" THEN [exc |-> "FileExistsError", fs |-> fsv]
    ELSE IF fault # "" THEN [exc |-> fault, fs |-> fsv]
    ELSE [exc |-> "", fs |-> [fsv EXCEPT ![p] = "generated"]]

GenbunCallback ==
    /\ pc = "parsed"
    /\ ns["callback"] = Callback("genbun")
    /\ callback_run' = "genbun"
    /\ \E fault \in WriteFaults :
          LET r == BundleWrite(fs, ns["user_bundle_path"][2], fault)
          IN  /\ fs' = r.fs
              /\ raised' = r.exc
              /\ End(MainEnds(GenbunClauses, r.exc))
    /\ UNCHANGED <<command, arg_list, argv, ns, seen, extras, stdout, meta, fs0, task,
                   extracted, patchVars>>

(***************************************************************************)
(* getsrc: source_retrieval.retrieve_and_extract behind the callback.      *)
(***************************************************************************)
Targets == 1..NumTargets

\* Download tasks that may run at once.
ConcurrencyLimit == 2

\* What a download-and-verify task can find at its destination and remotely.
LocalStates == {"absent", "good", "corrupt", "notfile"}
RemoteStates == {"good", "corrupt", "unreachable"}
DownloadsDirStates == {"dir", "missing", "notdir"}

\* Downloader + HashVerifier for one target: "" when the verified archive is
\* at its destination, else the exception.
DownloadAndVerify(local, remote) ==
    CASE local = "notfile" -> "NotAFileError"
      [] local = "good" -> ""
      [] local = "corrupt" -> "HashMismatchError"
      [] local = "absent" /\ remote = "good" -> ""
      [] local = "absent" /\ remote = "corrupt" -> "HashMismatchError"
      [] OTHER -> "URLError"

\* The precondition gate of the pipeline.
Preconditions(fsv, treePath, downloadsDir) ==
    CASE downloadsDir = "missing" -> "FileNotFoundError"
      [] downloadsDir = "notdir" -> "NotADirectoryError"
      [] fsv[treePath] # "absent" -> "FileExistsError"
      [] OTHER -> ""

\* Mutant: extraction starts as soon as some archive is verified.
MayExtractAny(tk) == \E t \in Targets : tk[t] = "verified"

\* Extraction may start once every target's task has verified its archive.
MayExtract(tk) == \A t \in Targets : tk[t] = "verified"

\* Fail-fast: the failing task is marked, outstanding tasks are cancelled.
FailFast(tk, t) ==
    [u \in Targets |->
        IF u = t THEN "failed"
        ELSE IF tk[u] \in {"pending", "running"} THEN "cancelled"
        ELSE tk[u]]

\* The callback was entered and retrieve_and_extract raised exc.
GetsrcRaises(exc) ==
    /\ raised' = exc
    /\ End(MainEnds(GetsrcClauses, exc))

GetsrcCallback ==
    /\ pc = "parsed"
    /\ ns["callback"] = Callback("getsrc")
    /\ callback_run' = "getsrc"
    /\ \E downloadsDir \in DownloadsDirStates :
          LET exc == Preconditions(fs, ns["tree"][2], downloadsDir)
          IN  IF exc # "" THEN GetsrcRaises(exc)
              ELSE /\ pc' = "downloading"
                   /\ UNCHANGED <<exit_status, escaped, raised>>
    /\ UNCHANGED <<command, arg_list, argv, ns, seen, extras, stdout, meta, fs, fs0, task,
                   extracted, patchVars>>

StartDownload(t) ==
    /\ pc = "downloading"
    /\ task[t] = "pending"
    /\ Cardinality({u \in Targets : task[u] = "running"}) < ConcurrencyLimit
    /\ task' = [task EXCEPT ![t] = "running"]
    /\ UNCHANGED <<command, arg_list, argv, ns, seen, extras, pc, exit_status, escaped,
                   callback_run, stdout, meta, fs, fs0, extracted, raised,
                   patchVars>>

FinishDownload(t) ==
    /\ pc = "downloading"
    /\ task[t] = "running"
    /\ \E local \in LocalStates, remote \in RemoteStates :
          LET exc == DownloadAndVerify(local, remote)
              verified == [task EXCEPT ![t] = "verified"]
          IN  IF exc # ""
              THEN /\ task' = FailFast(task, t)
                   /\ GetsrcRaises(exc)
              ELSE /\ task' = verified
                   /\ pc' = IF MayExtract(verified) THEN "extracting"
                            ELSE "downloading"
                   /\ UNCHANGED <<exit_status, escaped, raised>>
    /\ UNCHANGED <<command, arg_list, argv, ns, seen, extras, callback_run, stdout, meta,
                   fs, fs0, extracted, patchVars>>

\* ArchiveExtractor on the next target, into a temporary sibling of the tree;
\* after the last one the sibling is renamed into place.
Extract ==
    /\ pc = "extracting"
    /\ Len(extracted) < NumTargets
    /\ \E unsafe \in BOOLEAN :
          LET t == Len(extracted) + 1
          IN  IF unsafe
              THEN /\ GetsrcRaises("UnsafeArchiveEntryError")
                   /\ UNCHANGED <<extracted, fs>>
              ELSE /\ extracted' = Append(extracted, t)
                   /\ fs' = IF t = NumTargets
                            THEN [fs EXCEPT ![ns["tree"][2]] = "extracted"]
                            ELSE fs
                   /\ pc' = IF t = NumTargets THEN "pruning" ELSE "extracting"
                   /\ UNCHANGED <<exit_status, escaped, raised>>
    /\ UNCHANGED <<command, arg_list, argv, ns, seen, extras, callback_run, stdout, meta,
                   fs0, task, patchVars>>

\* BinaryPruner when prune_binaries is set, then retrieve_and_extract returns.
Prune ==
    /\ pc = "pruning"
    /\ fs' = IF ns["prune_binaries"] = Bool(TRUE)
             THEN [fs EXCEPT ![ns["tree"][2]] = "pruned"]
             ELSE fs
    /\ End(MainEnds(GetsrcClauses, ""))
    /\ UNCHANGED <<command, arg_list, argv, ns, seen, extras, callback_run, stdout, meta,
                   fs0, task, extracted, raised, patchVars>>

(***************************************************************************)
(* One run of main().                                                      *)
(***************************************************************************)
RECURSIVE SeqsUpTo(_, _)
SeqsUpTo(S, n) ==
    IF n = 0 THEN {<<>>}
    ELSE LET shorter == SeqsUpTo(S, n - 1)
         IN  shorter \cup {Append(q, x) : q \in shorter, x \in S}

NoPatch ==
    /\ linesep = <<>>
    /\ file = <<>>
    /\ file0 = <<>>
    /\ file1 = <<>>
    /\ runs = 0
    /\ last = <<>>

\* main() has built its parsers and parse_args has set the defaults of the
\* sub-command's parser on the namespace; no argument is consumed yet.
Init ==
    /\ command \in Commands
    /\ arg_list \in SeqsUpTo(ArgsOf(command), MaxArgs)
    /\ argv = arg_list
    /\ ns = Defaults(command)
    /\ seen = {}
    /\ extras = FALSE
    /\ pc = "parsing"
    /\ exit_status = -1
    /\ escaped = ""
    /\ callback_run = ""
    /\ stdout = <<>>
    /\ meta \in [Names -> Names \cup {Root, Absent}]
    /\ \E bundles \in [BundlePaths -> {"absent", "bundle"}],
          tree \in (IF command = "getsrc" THEN {"absent", "present"} ELSE {"absent"}) :
          fs = [p \in BundlePaths \cup {DefaultTree} |->
                   IF p = DefaultTree THEN tree ELSE bundles[p]]
    /\ fs0 = fs
    /\ task = [t \in Targets |-> "pending"]
    /\ extracted = <<>>
    /\ raised = ""
    /\ NoPatch

Next ==
    \/ ConsumeArg
    \/ EndParse
    \/ MainNoCallback
    \/ BunnfoCallback
    \/ GenbunCallback
    \/ GetsrcCallback
    \/ \E t \in Targets : StartDownload(t)
    \/ \E t \in Targets : FinishDownload(t)
    \/ Extract
    \/ Prune

Spec == Init /\ [][Next]_vars

(***************************************************************************)
(* devutils/update_lists_patch.py.  Text is a sequence of characters;      *)
(* indices are Python's (from 0).                                          *)
(***************************************************************************)
Marker ==
    <<"P", "R", "U", "N", "I", "N", "G", "_", "E", "X", "C", "L", "U", "D",
      "E", "_", "P", "A", "T", "T", "E", "R", "N", "S", " ", "=", " ", "[">>

new_patterns ==
    << <<"*", ".", "t", "f", "l", "i", "t", "e">>,
       <<"*", ".", "b", "i", "n", "a", "r", "y", "p", "b">>,
       <<"*", ".", "p", "b">>,
       <<"*", ".", "p", "b", "t", "x", "t", ".", "g", "z">>,
       <<"*", ".", "b", "i", "n">> >>

\* f"'{pattern}'"
Quoted(pattern) == <<"'">> \o pattern \o <<"'">>

\* f"    '{pattern}',\n"
Entry(pattern) == <<" ", " ", " ", " ">> \o Quoted(pattern) \o <<",", "\n">>

\* s[i:j] for 0 <= i, j <= len(s)
Slice(s, i, j) == SubSeq(s, i + 1, j)

\* s.find(sub, start): the lowest index >= start where sub occurs, else -1.
Find(s, sub, start) ==
    LET hits == {i \in start..(Len(s) - Len(sub)) : Slice(s, i, i + Len(sub)) = sub}
    IN  IF hits = {} THEN -1
        ELSE CHOOSE i \in hits : \A j \in hits : i <= j

\* sub in s
Contains(s, sub) == Find(s, sub, 0) # -1

\* ''.join(parts)
RECURSIVE JoinRange(_, _, _)
JoinRange(parts, lo, hi) ==
    IF lo > hi THEN <<>>
    ELSE IF lo = hi THEN parts[lo]
    ELSE LET mid == (lo + hi) \div 2
         IN  JoinRange(parts, lo, mid) \o JoinRange(parts, mid + 1, hi)

Join(parts) == JoinRange(parts, 1, Len(parts))

\* open(file_path, 'r').read(): universal newlines, "\r\n" and "\r" read as "\n".
ReadText(f) ==
    Join([i \in 1..Len(f) |->
            IF f[i] = "\r" THEN <<"\n">>
            ELSE IF f[i] = "\n" /\ i > 1 /\ f[i - 1] = "\r" THEN <<>>
            ELSE <<f[i]>>])

\* open(file_path, 'w').write(text): each "\n" is written as os.linesep.
WriteText(text, sep) ==
    Join([i \in 1..Len(text) |-> IF text[i] = "\n" THEN sep ELSE <<text[i]>>])

\* Mutant: the pattern is looked up without its quotes.
RECURSIVE PatternsToAddUnquoted(_, _)
PatternsToAddUnquoted(current_list, i) ==
    IF i > Len(new_patterns) THEN <<>>
    ELSE (IF ~Contains(current_list, new_patterns[i])
          THEN <<Entry(new_patterns[i])>> ELSE <<>>)
         \o PatternsToAddUnquoted(current_list, i + 1)

\* The entries of the patterns whose quoted form is not in current_list, in
\* the order of new_patterns.
RECURSIVE PatternsToAdd(_, _)
PatternsToAdd(current_list, i) ==
    IF i > Len(new_patterns) THEN <<>>
    ELSE (IF ~Contains(current_list, Quoted(new_patterns[i]))
          THEN <<Entry(new_patterns[i])>> ELSE <<>>)
         \o PatternsToAdd(current_list, i + 1)

\* Mutant: the entries are put after the "]".
NewContentAfterBracket(content, end_idx, patterns_to_add) ==
    Slice(content, 0, end_idx + 1) \o Join(patterns_to_add)
        \o Slice(content, end_idx + 1, Len(content))

\* content[:end_idx] + ''.join(patterns_to_add) + content[end_idx:]
NewContent(content, end_idx, patterns_to_add) ==
    Slice(content, 0, end_idx) \o Join(patterns_to_add)
        \o Slice(content, end_idx, Len(content))

\* add_patterns_to_file() on a file holding f: what it read, found, decided
\* and left on disk.
add_patterns_to_file(f, sep) ==
    LET content == ReadText(f)
        start_idx == Find(content, Marker, 0)
        end_idx == IF start_idx = -1 THEN -1 ELSE Find(content, <<"]">>, start_idx)
        current_list == Slice(content, start_idx, end_idx + 1)
        patterns_to_add == PatternsToAdd(current_list, 1)
        new_content == NewContent(content, end_idx, patterns_to_add)
        quiet == [content |-> content, start_idx |-> start_idx, end_idx |-> end_idx,
                  patterns_to_add |-> <<>>, new_content |-> <<>>, wrote |-> FALSE,
                  file |-> f, printed |-> ""]
    IN  IF start_idx = -1
        THEN [quiet EXCEPT !.printed = "PRUNING_EXCLUDE_PATTERNS nenalezeno v souboru"]
        ELSE IF end_idx = -1
        THEN [quiet EXCEPT !.printed = "Failed to locate end of PRUNING_EXCLUDE_PATTERNS"]
        ELSE IF patterns_to_add # <<>>
        THEN [quiet EXCEPT !.patterns_to_add = patterns_to_add,
                           !.new_content = new_content,
                           !.wrote = TRUE,
                           !.file = WriteText(new_content, sep),
                           !.printed = "update_lists.py patched"]
        ELSE [quiet EXCEPT !.printed = "no patch applied - file already patched"]

\* Pieces the contents of update_lists.py are put together from.
Fragments ==
    << Marker,
       <<"]">>,
       <<"\n">>,
       <<"\r", "\n">>,
       Quoted(new_patterns[1]) \o <<",">>,
       Quoted(new_patterns[2]) \o <<",">>,
       Quoted(new_patterns[3]) \o <<",">>,
       Quoted(new_patterns[4]) \o <<",">>,
       Quoted(new_patterns[5]) \o <<",">>,
       <<"'">> \o new_patterns[5] >>

FileOf(ids) == Join([i \in 1..Len(ids) |-> Fragments[ids[i]]])

NoCli ==
    /\ command = ""
    /\ arg_list = <<>>
    /\ argv = <<>>
    /\ ns = [a \in Attrs |-> NoAttr]
    /\ seen = {}
    /\ extras = FALSE
    /\ pc = "patch"
    /\ exit_status = -1
    /\ escaped = ""
    /\ callback_run = ""
    /\ stdout = <<>>
    /\ meta = [n \in Names |-> Absent]
    /\ fs = [p \in BundlePaths \cup {DefaultTree} |-> "absent"]
    /\ fs0 = fs
    /\ task = [t \in Targets |-> "pending"]
    /\ extracted = <<>>
    /\ raised = ""

InitPatch ==
    /\ NoCli
    /\ linesep \in {<<"\n">>, <<"\r", "\n">>}
    /\ \E ids \in SeqsUpTo(1..Len(Fragments), MaxFrags) : file = FileOf(ids)
    /\ file0 = file
    /\ file1 = file
    /\ runs = 0
    /\ last = add_patterns_to_file(<<>>, linesep)

RunPatch ==
    /\ pc = "patch"
    /\ runs < MaxRuns
    /\ LET r == add_patterns_to_file(file, linesep)
       IN  /\ last' = r
           /\ file' = r.file
           /\ file1' = IF runs = 0 THEN r.file ELSE file1
           /\ stdout' = Append(stdout, r.printed)
    /\ runs' = runs + 1
    /\ UNCHANGED <<command, arg_list, argv, ns, seen, extras, pc, exit_status,
                   escaped, callback_run, meta, fs, fs0, task, extracted, raised,
                   linesep, file0>>

NextPatch == RunPatch

SpecPatch == InitPatch /\ [][NextPatch]_vars

(***************************************************************************)
(* Properties of main().                                                   *)
(***************************************************************************)
\* parse_args returned: the command line was accepted.
Accepted ==
    \/ pc \in {"parsed", "downloading", "extracting", "pruning"}
    \/ callback_run # ""
    \/ (pc = "crashed" /\ escaped = "AttributeError")

\* The values given to option opt on the command line, in order.
ValuesOf(opt) ==
    LET given == SelectSeq(arg_list, LAMBDA a : a[1] = opt)
    IN  [i \in 1..Len(given) |-> given[i][2]]

\* C1: whenever retrieve_and_extract raises, whatever the exception, main()
\* ends in parser.exit(1) and no exception leaves it; main() returns
\* normally only after retrieve_and_extract returned normally.
C1_GetsrcFailureExitsOne ==
    callback_run = "getsrc" =>
        /\ raised # "" => (pc = "exited" /\ exit_status = 1 /\ escaped = "")
        /\ pc = "returned" =>
              (raised = "" /\ Len(extracted) = NumTargets
               /\ fs[ns["tree"][2]] \in {"extracted", "pruned"})
        /\ pc \in {"exited", "crashed"} => raised # ""

\* C1 witness: an exception none of the named clauses takes (a network
\* error) was raised by retrieve_and_extract and main() exited with 1.
C1_Witness ==
    /\ callback_run = "getsrc"
    /\ raised = "URLError"
    /\ pc = "exited"
    /\ exit_status = 1

\* C2: extraction runs only when the download-and-verify task of every
\* target has succeeded, and a run that failed with a hash mismatch or a
\* not-a-regular-file error has extracted nothing and left the tree absent.
C2_NoExtractionBeforeAllVerified ==
    /\ (pc \in {"extracting", "pruning"} \/ extracted # <<>>) =>
          \A t \in Targets : task[t] = "verified"
    /\ (callback_run = "getsrc" /\ raised \in {"HashMismatchError", "NotAFileError"}) =>
          (extracted = <<>> /\ fs[ns["tree"][2]] = "absent" /\ pc = "exited")

\* C2 witness: a target failed its hash check after another one had been
\* verified; nothing was extracted and the tree is absent.
C2_Witness ==
    /\ raised = "HashMismatchError"
    /\ \E t \in Targets : task[t] = "verified"
    /\ \E t \in Targets : task[t] = "failed"
    /\ extracted = <<>>
    /\ fs[ns["tree"][2]] = "absent"

\* C3: genbun on an output path that exists exits with 1 and leaves the path
\* as it was; every other failure of the write exits with 1 too.
C3_GenbunNeverOverwrites ==
    callback_run = "genbun" =>
        /\ fs0[ns["user_bundle_path"][2]] # "absent" =>
              (pc = "exited" /\ exit_status = 1 /\ fs = fs0
               /\ raised = "FileExistsError")
        /\ raised # "" => (pc = "exited" /\ exit_status = 1 /\ escaped = "")

\* C3 witness: genbun ran against an existing user bundle path and exited.
C3_Witness ==
    /\ callback_run = "genbun"
    /\ fs0[ns["user_bundle_path"][2]] = "bundle"
    /\ pc = "exited"
    /\ exit_status = 1

\* C4: when the resolution of a base bundle name raises during parsing, in
\* that step the program exits with 1, the action assigns nothing to the
\* namespace, and no callback is ever invoked.
C4_ResolutionFailureExitsOne ==
    [][(raised' # "" /\ callback_run' = "") =>
          (pc' = "exited" /\ exit_status' = 1 /\ escaped' = "" /\ ns' = ns
           /\ pc = "parsing")]_vars

\* C4 witness: a cyclic base chain stopped the parse with status 1.
C4_Witness ==
    /\ raised = "ValueError"
    /\ callback_run = ""
    /\ pc = "exited"
    /\ exit_status = 1

\* C5: a command of setup_bundle_group accepts -b or -u but not both, and
\* args.bundle is the base bundle of the (last) -b NAME, else the user bundle
\* of the (last) -u PATH, else the user bundle at buildspace/user_bundle.
C5_ExactlyOneBundle ==
    (command \in BundleGroupCommands /\ Accepted) =>
        LET bs == ValuesOf("-b")
            us == ValuesOf("-u")
        IN  /\ ~(bs # <<>> /\ us # <<>>)
            /\ bs # <<>> => ns["bundle"] = BaseBundle(bs[Len(bs)])
            /\ us # <<>> => ns["bundle"] = UserBundle(us[Len(us)])
            /\ (bs = <<>> /\ us = <<>>) => ns["bundle"] = UserBundle(DefaultUserBundle)

\* C5 witness: -b NAME was accepted with no user bundle at the default path.
C5_Witness ==
    /\ command \in BundleGroupCommands
    /\ pc = "parsed"
    /\ ns["bundle"][1] = "base"
    /\ fs[DefaultUserBundle] = "absent"

\* C6: bunnfo --dependencies B returns after printing the chain of B, one
\* name per line: the root first, each bundle right after its base, B last,
\* no name twice, and nothing on disk changes.
C6_DependencyOrderPrinted ==
    (callback_run = "bunnfo" /\ ns["list"] # Bool(TRUE)) =>
        /\ pc = "returned"
        /\ ns["bundle"][1] = "base"
        /\ Len(stdout) >= 1
        /\ stdout[Len(stdout)] = ns["bundle"][2]
        /\ meta[stdout[1]] = Root
        /\ \A i \in 2..Len(stdout) : meta[stdout[i]] = stdout[i - 1]
        /\ \A i, j \in 1..Len(stdout) : stdout[i] = stdout[j] => i = j
        /\ fs = fs0

\* C6 witness: a bundle with a base had its two-name chain printed.
C6_Witness ==
    /\ callback_run = "bunnfo"
    /\ ns["list"] # Bool(TRUE)
    /\ Len(stdout) >= 2
    /\ pc = "returned"

\* C7: every accepted command line finds args.callback defined, so main()
\* ends by returning or by exiting with 1, never on the attribute lookup.
C7_EveryCommandHasCallback ==
    (Accepted /\ pc \in {"returned", "exited", "crashed"}) =>
        (ns["callback"] # NoAttr /\ callback_run # "" /\ escaped # "AttributeError")

(***************************************************************************)
(* Properties of add_patterns_to_file().                                   *)
(***************************************************************************)
\* q occurs in text within the positions lo..hi (counted from 1).
OccursBetween(text, q, lo, hi) ==
    \E i \in lo..(hi - Len(q) + 1) : \A k \in 1..Len(q) : text[i + k - 1] = q[k]

\* The first position (from 1) of the marker in text, 0 if it has none.
MarkerAt(text) ==
    LET at == {i \in 1..(Len(text) - Len(Marker) + 1) :
                  \A k \in 1..Len(Marker) : text[i + k - 1] = Marker[k]}
    IN  IF at = {} THEN 0 ELSE CHOOSE i \in at : \A j \in at : i <= j

\* The position (from 1) of the first "]" of text at or after from, 0 if none.
BracketFrom(text, from) ==
    LET at == {i \in from..Len(text) : text[i] = "]"}
    IN  IF at = {} THEN 0 ELSE CHOOSE i \in at : \A j \in at : i <= j

\* C8: after the first run every further run leaves the file as the first
\* run left it: it writes nothing, adds nothing, and where it reached the
\* list it found all extra patterns quoted in it.
C8_Idempotent ==
    runs >= 2 =>
        /\ file = file1
        /\ ~last.wrote
        /\ last.patterns_to_add = <<>>
        /\ last.end_idx # -1 =>
              LET m == MarkerAt(last.content)
                  b == BracketFrom(last.content, m)
              IN  \A i \in 1..Len(new_patterns) :
                     OccursBetween(last.content, Quoted(new_patterns[i]),
                                   m + Len(Marker), b - 1)

\* C8 witness: the first run patched the file and the second run found it
\* already patched.
C8_Witness ==
    /\ runs = 2
    /\ file1 # file0
    /\ last.printed = "no patch applied - file already patched"

====
